---- MODULE Spec2Model ----
(***************************************************************************)
(* A model of pythonix's Res type (src/pythonix/internals/res.py): its     *)
(* constructors, extraction methods, combinators and decorator adapters,   *)
(* driven by a caller that holds one Res at a time and calls one method    *)
(* per step. The draft of Res in src/pythonix/internals/choice_experiment.py*)
(* (and_then, or_else, and_, or_, unwrap_or, unwrap_or_else) is modelled    *)
(* beside it under the prefix CE_.                                         *)
(*                                                                         *)
(* Python values are tagged records:                                       *)
(*   [ty |-> "int", n]            an int                                   *)
(*   [ty |-> "none"]              None                                     *)
(*   [ty |-> "str", s]            a str                                    *)
(*   [ty |-> "exc", cls, msg, id] an Exception instance; id is its object  *)
(*                                identity (exceptions compare by identity)*)
(*   [ty |-> "list"|"tuple"|"set"|"listad", items]   collections           *)
(*   [ty |-> "res", inner, is_ok] a Res                                    *)
(*   [ty |-> "ceres", inner, is_err] a Res of choice_experiment.py         *)
(*   [ty |-> "bool", b]           a bool                                   *)
(* The outcome of a call is [kind |-> "ret"|"raise", val, calls, ids]:     *)
(* the value returned or the exception raised, the argument lists the      *)
(* caller's function was invoked with, and how many new exception objects  *)
(* the call created.                                                       *)
(***************************************************************************)
EXTENDS Integers, Sequences, FiniteSets, TLC

VARIABLES res, last, nextId, steps

vars == <<res, last, nextId, steps>>

\* ---------------------------------------------------------------- bounds
MaxInt == 1
MaxLen == 2
MaxSteps == 3

\* The constant the tests' mapper adds (lambda x: x + 10).
AddN == 10

\* ------------------------------------------------------------ the values
None == [ty |-> "none"]
PyInt(n) == [ty |-> "int", n |-> n]
PyStr(s) == [ty |-> "str", s |-> s]
Coll(ty, items) == [ty |-> ty, items |-> items]
NewExc(cls, msg, id) == [ty |-> "exc", cls |-> cls, msg |-> msg, id |-> id]
PyBool(b) == [ty |-> "bool", b |-> b]

\* The dataclass constructor Res(inner, _is_ok): no validation.
Res(inner, is_ok) == [ty |-> "res", inner |-> inner, is_ok |-> is_ok]

IsException(v) == v.ty = "exc"
IsRes(v) == v.ty = "res"

\* The Res of choice_experiment.py, whose fields are (inner, _is_err).
CERes(inner, is_err) == [ty |-> "ceres", inner |-> inner, is_err |-> is_err]
IsCERes(v) == v.ty = "ceres"
\* A type or type variable passed as other_type.
TypeArg(name) == [ty |-> "type", name |-> name]
IsColladic(v) == v.ty = "listad"
IsBuiltinColl(v) == v.ty \in {"list", "tuple", "set"}

\* Python's a == b on payloads: a list and a Listad (a list subclass) compare
\* by their items; an exception compares by identity; any other two values
\* are equal when they are the same value of the same type.
PyEq(a, b) ==
  IF a.ty \in {"list", "listad"} /\ b.ty \in {"list", "listad"}
  THEN a.items = b.items
  ELSE a = b

\* Values whose hash() raises TypeError.
Unhashable(v) == v.ty \in {"list", "listad", "set"}

\* a in b for two str: b = pre + a + post for some pre and post.
StrParts == {"", "h", "he", "hel", "hell", "hello", "ello", "llo", "lo", "o"}
Substring(a, b) == \E pre \in StrParts, post \in StrParts : pre \o a \o post = b

\* isinstance(e, cls): every modelled class derives from Exception.
IsInstance(e, cls) == cls = "Exception" \/ e.cls = cls

\* Exception classes whose __init__ calls super().__init__(self, message),
\* so that args is (self, message).
SelfArgClasses == {"Nil", "UnwrapError", "ExpectError"}
NilDefaultMsg == "Found None while expecting something"

\* str(e) of an exception: its message when args is (message,), the repr of
\* the args tuple when args is (self, message).
StrOf(e) ==
  IF e.cls \in SelfArgClasses
  THEN "(" \o e.cls \o "(...), '" \o e.msg \o "')"
  ELSE e.msg

\* ---------------------------------------------------------- the outcomes
Ret(v, calls, ids) == [kind |-> "ret", val |-> v, calls |-> calls, ids |-> ids]
Raise(e, calls, ids) == [kind |-> "raise", val |-> e, calls |-> calls, ids |-> ids]

\* __bool__ of a Res
Truthy(self) == self.is_ok

\* --------------------------------------------------------- constructors
\* Mutant: Ok without its isinstance check.
OkNoCheck(value, id) == Ret(Res(value, TRUE), <<>>, 0)

Ok(value, id) ==
  IF IsException(value)
  THEN Raise(NewExc("TypeError", "Cannot pass an Exception child to Ok", id), <<>>, 1)
  ELSE Ret(Res(value, TRUE), <<>>, 0)

\* Mutant: Err without its isinstance check.
ErrNoCheck(value, id) == Ret(Res(value, FALSE), <<>>, 0)

Err(value, id) ==
  IF ~IsException(value)
  THEN Raise(NewExc("TypeError", "Expected subclass of Exception but found", id), <<>>, 1)
  ELSE Ret(Res(value, FALSE), <<>>, 0)

\* Nil() builds one new exception object, then Err wraps it.
BumpIds(out, n) == [out EXCEPT !.ids = @ + n]

\* Mutant: Some without its None check.
SomeNoneIsOk(value, id) == Ok(value, id)

Some(value, id) ==
  IF value = None
  THEN BumpIds(Err(NewExc("Nil", NilDefaultMsg, id), id + 1), 1)
  ELSE Ok(value, id)

\* Res.Nil(nil_message); hasMsg = FALSE stands for nil_message = None.
Nil(hasMsg, msg, id) ==
  IF hasMsg
  THEN BumpIds(Err(NewExc("Nil", msg, id), id + 1), 1)
  ELSE BumpIds(Err(NewExc("Nil", NilDefaultMsg, id), id + 1), 1)

\* ------------------------------- constructors of choice_experiment.py
\* Ok(cls, value, other_type) and Err(cls, value, other_type) take two
\* positional arguments; args is the sequence the call passes. Ok does not
\* look at value; Err rejects a value that is not an Exception.
CE_Ok(args, id) ==
  IF Len(args) # 2
  THEN Raise(NewExc("TypeError",
                    "Res.Ok() missing 1 required positional argument: 'other_type'", id),
             <<>>, 1)
  ELSE Ret(CERes(args[1], FALSE), <<>>, 0)

CE_Err(args, id) ==
  IF Len(args) # 2
  THEN Raise(NewExc("TypeError",
                    "Res.Err() missing 1 required positional argument: 'other_type'", id),
             <<>>, 1)
  ELSE IF ~IsException(args[1])
       THEN Raise(NewExc("TypeError", "Expected subclass of Exception but found", id), <<>>, 1)
       ELSE Ret(CERes(args[1], TRUE), <<>>, 0)

CE_Some(value, id) ==
  IF value = None
  THEN BumpIds(CE_Err(<<NewExc("Nil", NilDefaultMsg, id), TypeArg("U")>>, id + 1), 1)
  ELSE CE_Ok(<<value, TypeArg("Nil")>>, id)

CE_is_err(self) == self.is_err
CE_is_ok(self) == ~self.is_err

\* ----------------------------------------------------------- extraction
\* Mutant: unwrap raising a generic UnwrapError instead of the payload.
unwrap_raises_unwrap_error(self, id) ==
  IF self.is_ok /\ ~IsException(self.inner)
  THEN Ret(self.inner, <<>>, 0)
  ELSE Raise(NewExc("UnwrapError", "Unwrapped while in an unexpected state", id), <<>>, 1)

unwrap(self, id) ==
  IF self.is_ok /\ ~IsException(self.inner)
  THEN Ret(self.inner, <<>>, 0)
  ELSE IF IsException(self.inner)
       THEN Raise(self.inner, <<>>, 0)
       ELSE Raise(NewExc("ValueError", "Unreachable", id), <<>>, 1)

\* Mutant: unwrap_alt raising UnwrapError with its default message.
unwrap_alt_default_message(self, id) ==
  IF ~Truthy(self)
  THEN Ret(self.inner, <<>>, 0)
  ELSE Raise(NewExc("UnwrapError", "Unwrapped while in an unexpected state", id), <<>>, 1)

unwrap_alt(self, id) ==
  IF ~Truthy(self)
  THEN Ret(self.inner, <<>>, 0)
  ELSE Raise(NewExc("UnwrapError", "Unwrapped Err while in Ok state", id), <<>>, 1)

\* The module-level unwrap_err(subj): return subj.unwrap_alt()
unwrap_err(subj, id) == unwrap_alt(subj, id)

\* Mutant: expect raising the stored payload, as unwrap does.
expect_raises_payload(self, message, id) ==
  IF ~Truthy(self)
  THEN Raise(self.inner, <<>>, 0)
  ELSE Ret(self.inner, <<>>, 0)

expect(self, message, id) ==
  IF ~Truthy(self)
  THEN Raise(NewExc("ExpectError", message, id), <<>>, 1)
  ELSE Ret(self.inner, <<>>, 0)

expect_err(self, message, id) ==
  IF ~Truthy(self)
  THEN Ret(self.inner, <<>>, 0)
  ELSE Raise(NewExc("ExpectError", message, id), <<>>, 1)

\* Mutant: unpack without its Err case.
unpack_without_err_case(self) == Coll("tuple", <<self.inner, None>>)

\* match self: case Res(e, False) if isinstance(e, Exception): return None, e
\*             case Res(t): return t, None
unpack(self) ==
  IF self.is_ok = FALSE /\ IsException(self.inner)
  THEN Coll("tuple", <<None, self.inner>>)
  ELSE Coll("tuple", <<self.inner, None>>)

\* The module-level is_ok(subj) and is_err(subj).
is_ok(subj) == Truthy(subj)

\* Mutant: is_err answering as is_ok does.
is_err_as_is_ok(subj) == Truthy(subj)

is_err(subj) == ~Truthy(subj)

\* The class defines none of __lt__, __le__, __gt__, __ge__ and its dataclass
\* decorator is not given order=True: Python finds no implementation on
\* either operand and raises TypeError. op is "<", "<=", ">" or ">=".
Compare(op, self, other, id) ==
  Raise(NewExc("TypeError",
               "'" \o op \o "' not supported between instances of 'Res' and 'Res'", id),
        <<>>, 1)

\* -------------------------------------------------- the caller's functions
\* A function handed to the library is [arity, body, c, cls]:
\*   "const"    lambda: c  /  lambda x: c  /  lambda x, y: c
\*   "ident"    lambda x: x
\*   "add"      lambda x: x + 10
\*   "some_add" lambda x: Res.Some(x + 10)
\*   "some_of"  lambda x: Res.Some(x)
\*   "new_exc"  lambda e: cls(str(e))  /  lambda: cls("foo")
\*   "err_new"  lambda e: Res.Err(Exception(str(e)))
\*   "new_default" lambda e: cls()
\*   "raise"    a function whose body raises cls("boom")
\*   "eq_c"     lambda t: t == c
\*   "isinstance" lambda e: isinstance(e, cls)
\*   "ce_some_of" lambda x: Res.Some(x)                 (choice_experiment)
\*   "ce_err_new" lambda e: Res.Err(ValueError(str(e)), int)   (choice_experiment)
Fn(arity, body, c, cls) == [arity |-> arity, body |-> body, c |-> c, cls |-> cls]
NoFn == Fn(0, "none", None, "")

\* str(v) of any value; only the str of an exception is spelled out.
PyStrOf(v) == IF IsException(v) THEN StrOf(v) ELSE "<str>"

\* The message of cls() built with no argument.
DefaultMsg(cls) ==
  CASE cls = "Nil" -> NilDefaultMsg
    [] cls = "UnwrapError" -> "Unwrapped while in an unexpected state"
    [] OTHER -> ""

Chain(first, then) ==
  [then EXCEPT !.calls = first.calls \o @, !.ids = first.ids + @]

\* The body of using, run on args (which the parameters have bound).
Body(using, args, id) ==
  CASE using.body = "const" -> Ret(using.c, <<args>>, 0)
    [] using.body = "ident" -> Ret(args[1], <<args>>, 0)
    [] using.body = "add" ->
         IF args[1].ty = "int"
         THEN Ret(PyInt(args[1].n + AddN), <<args>>, 0)
         ELSE Raise(NewExc("TypeError", "unsupported operand type(s) for +", id), <<args>>, 1)
    [] using.body = "some_add" ->
         IF args[1].ty = "int"
         THEN Chain(Ret(None, <<args>>, 0), Some(PyInt(args[1].n + AddN), id))
         ELSE Raise(NewExc("TypeError", "unsupported operand type(s) for +", id), <<args>>, 1)
    [] using.body = "some_of" -> Chain(Ret(None, <<args>>, 0), Some(args[1], id))
    [] using.body = "new_exc" ->
         IF using.arity = 1
         THEN Ret(NewExc(using.cls, PyStrOf(args[1]), id), <<args>>, 1)
         ELSE Ret(NewExc(using.cls, "foo", id), <<args>>, 1)
    [] using.body = "err_new" ->
         Chain(Ret(None, <<args>>, 1), Err(NewExc("Exception", PyStrOf(args[1]), id), id + 1))
    [] using.body = "new_default" ->
         Ret(NewExc(using.cls, DefaultMsg(using.cls), id), <<args>>, 1)
    [] using.body = "raise" -> Raise(NewExc(using.cls, "boom", id), <<args>>, 1)
    [] using.body = "eq_c" -> Ret(PyBool(args[1] = using.c), <<args>>, 0)
    [] using.body = "isinstance" ->
         Ret(PyBool(IsException(args[1]) /\ IsInstance(args[1], using.cls)), <<args>>, 0)
    [] using.body = "ce_some_of" -> Chain(Ret(None, <<args>>, 0), CE_Some(args[1], id))
    [] using.body = "ce_err_new" ->
         Chain(Ret(None, <<args>>, 1),
               CE_Err(<<NewExc("ValueError", PyStrOf(args[1]), id), TypeArg("int")>>, id + 1))

\* Python's call using(*args): binding fails with TypeError, before the body
\* runs, when the number of arguments is not the number of parameters.
Apply(using, args, id) ==
  IF Len(args) # using.arity
  THEN Raise(NewExc("TypeError", "wrong number of positional arguments", id), <<>>, 1)
  ELSE Body(using, args, id)

\* ------------------------------------------------------------- iteration
\* Mutant: __iter__ without its Err case.
IterNoErrCase(self) ==
  IF IsColladic(self.inner) THEN <<self.inner>>
  ELSE IF IsBuiltinColl(self.inner) THEN self.inner.items
  ELSE <<self.inner>>

\* Mutant: __iter__ without its Colladic case.
IterNoColladicCase(self) ==
  IF self.is_ok = FALSE /\ IsException(self.inner)
  THEN <<>>
  ELSE IF IsBuiltinColl(self.inner) \/ IsColladic(self.inner) THEN self.inner.items
       ELSE <<self.inner>>

\* The items Res.__iter__ yields, in order.
Iter(self) ==
  IF self.is_ok = FALSE /\ IsException(self.inner)
  THEN <<>>
  ELSE IF IsColladic(self.inner) THEN <<self.inner>>
       ELSE IF IsBuiltinColl(self.inner) THEN self.inner.items
       ELSE <<self.inner>>

\* ------------------------------------------------------------ assignment
\* Mutant: a dataclass that is not frozen stores the value assigned.
AfterSetAttrUnfrozen(self, name, value) ==
  CASE name = "inner" -> [self EXCEPT !.inner = value]
    [] name = "_is_ok" -> [self EXCEPT !.is_ok = ~@]
    [] OTHER -> self

\* r.name = value on a frozen dataclass: the generated __setattr__ raises
\* FrozenInstanceError before anything is stored. AfterSetAttr is the object
\* once the statement has run.
AfterSetAttr(self, name, value) == self

SetAttr(self, name, value, id) ==
  Raise(NewExc("FrozenInstanceError", "cannot assign to field '" \o name \o "'", id), <<>>, 1)

\* --------------------------------------------------- equality, containment
\* Mutant: __eq__ comparing the tags only.
eq_by_tag_only(self, other) == IsRes(other) /\ self.is_ok = other.is_ok

\* The __eq__ the dataclass decorator generates (eq=True): for two Res it is
\* (self.inner, self._is_ok) == (other.inner, other._is_ok); for any other
\* operand NotImplemented, which makes == False.
eq(self, other) ==
  IF ~IsRes(other)
  THEN FALSE
  ELSE PyEq(self.inner, other.inner) /\ self.is_ok = other.is_ok

\* hasattr(v, "__iter__") or hasattr(v, "__contains__")
HasIterOrContains(v) == v.ty \in {"list", "tuple", "set", "listad", "str", "res"}

RECURSIVE PyIn(_, _, _)
RECURSIVE contains(_, _, _)

\* Python's item in container.
PyIn(item, container, id) ==
  CASE container.ty = "str" ->
         IF item.ty = "str"
         THEN Ret(PyBool(Substring(item.s, container.s)), <<>>, 0)
         ELSE Raise(NewExc("TypeError", "'in <string>' requires string as left operand", id),
                    <<>>, 1)
    [] container.ty = "set" ->
         IF Unhashable(item)
         THEN Raise(NewExc("TypeError", "unhashable type", id), <<>>, 1)
         ELSE Ret(PyBool(\E i \in 1..Len(container.items) : PyEq(item, container.items[i])),
                  <<>>, 0)
    [] container.ty = "res" -> contains(container, item, id)
    [] OTHER ->
         Ret(PyBool(\E i \in 1..Len(container.items) : PyEq(item, container.items[i])),
             <<>>, 0)

\* Mutant: __contains__ without its check of the tag.
contains_any_tag(self, item, id) ==
  IF HasIterOrContains(self.inner)
  THEN PyIn(item, self.inner, id)
  ELSE PyIn(item, Coll("list", <<self.inner>>), id)

\* Res.__contains__
contains(self, item, id) ==
  IF ~Truthy(self)
  THEN Ret(PyBool(FALSE), <<>>, 0)
  ELSE IF HasIterOrContains(self.inner)
       THEN PyIn(item, self.inner, id)
       ELSE PyIn(item, Coll("list", <<self.inner>>), id)

\* ----------------------------------------------------------- combinators
InvalidFunc(id) ==
  Raise(NewExc("ValueError", "Invalid func type. Must only contain 1 or 0 parameters.", id),
        <<>>, 1)

\* `for ok in self:` returns (or raises) in its first round, so only the first
\* item of the iteration is ever used; an iteration with no item falls through
\* to Res.Err(self.inner).
map(self, using, id) ==
  LET items == Iter(self) IN
  IF items = <<>>
  THEN Err(self.inner, id)
  ELSE IF using.arity \notin {0, 1}
       THEN InvalidFunc(id)
       ELSE LET out == IF using.arity = 1
                       THEN Apply(using, <<Head(items)>>, id)
                       ELSE Apply(using, <<>>, id)
            IN IF out.kind = "raise" THEN out
               ELSE IF ~IsRes(out.val)
                    THEN Chain(out, Ok(out.val, id + out.ids))
                    ELSE out

\* Mutant: map_alt wrapping a plain value without Err's check.
map_alt_unchecked(self, using, id) ==
  IF ~Truthy(self)
  THEN IF using.arity \notin {0, 1}
       THEN InvalidFunc(id)
       ELSE LET out == IF using.arity = 1
                       THEN Apply(using, <<self.inner>>, id)
                       ELSE Apply(using, <<>>, id)
            IN IF out.kind = "raise" THEN out
               ELSE IF ~IsRes(out.val)
                    THEN Chain(out, Ret(Res(out.val, FALSE), <<>>, 0))
                    ELSE out
  ELSE Ok(self.inner, id)

map_alt(self, using, id) ==
  IF ~Truthy(self)
  THEN IF using.arity \notin {0, 1}
       THEN InvalidFunc(id)
       ELSE LET out == IF using.arity = 1
                       THEN Apply(using, <<self.inner>>, id)
                       ELSE Apply(using, <<>>, id)
            IN IF out.kind = "raise" THEN out
               ELSE IF ~IsRes(out.val)
                    THEN Chain(out, Err(out.val, id + out.ids))
                    ELSE out
  ELSE Ok(self.inner, id)

\* err_type(str(e)) builds one new exception object.
convert_err(self, err_type, id) ==
  IF self.is_ok = FALSE
  THEN BumpIds(Err(NewExc(err_type, PyStrOf(self.inner), id), id + 1), 1)
  ELSE Ok(self.inner, id)

\* self.map(using); return self
do(self, using, id) ==
  LET m == map(self, using, id) IN
  IF m.kind = "raise" THEN m ELSE [m EXCEPT !.val = self]

\* Mutant: do_err without the return in its finally clause.
do_err_without_finally(self, using, id) ==
  IF self.is_ok = FALSE
  THEN LET first == Apply(using, <<self.inner>>, id)
           second == IF first.kind = "raise" /\ first.val.cls = "TypeError"
                     THEN Chain(first, Apply(using, <<>>, id + first.ids))
                     ELSE first
       IN IF second.kind = "raise"
          THEN second
          ELSE Chain([second EXCEPT !.val = None], Err(self.inner, id + second.ids))
  ELSE Ok(self.inner, id)

\* try: f(err)  except TypeError: f()  finally: return Res.Err(err)
\* The return in the finally clause discards whatever the try part raised.
do_err(self, using, id) ==
  IF self.is_ok = FALSE
  THEN LET first == Apply(using, <<self.inner>>, id)
           second == IF first.kind = "raise" /\ first.val.cls = "TypeError"
                     THEN Chain(first, Apply(using, <<>>, id + first.ids))
                     ELSE first
       IN Chain([second EXCEPT !.kind = "ret", !.val = None],
                Err(self.inner, id + second.ids))
  ELSE Ok(self.inner, id)

\* ------------------------------------------------------------ predicates
\* Mutant: ok_and without its check of the tag.
ok_and_unguarded(self, predicate, id) == Apply(predicate, <<self.inner>>, id)

\* if not self: return False;  return predicate(self.inner)
ok_and(self, predicate, id) ==
  IF ~Truthy(self)
  THEN Ret(PyBool(FALSE), <<>>, 0)
  ELSE Apply(predicate, <<self.inner>>, id)

\* if self: return False;  return predicate(self.inner)
err_and(self, predicate, id) ==
  IF Truthy(self)
  THEN Ret(PyBool(FALSE), <<>>, 0)
  ELSE Apply(predicate, <<self.inner>>, id)

\* ------------------------------------ methods of choice_experiment.py
CE_unwrap_or(self, default) ==
  IF CE_is_err(self)
  THEN Ret(default, <<>>, 0)
  ELSE Ret(self.inner, <<>>, 0)

\* Mutant: unwrap_or_else calling default whatever the tag.
CE_unwrap_or_else_eager(self, default, id) == Apply(default, <<>>, id)

CE_unwrap_or_else(self, default, id) ==
  IF CE_is_err(self)
  THEN Apply(default, <<>>, id)
  ELSE Ret(self.inner, <<>>, 0)

\* if self.is_err(): return Res.Err(self.inner)   -- one argument only
\* return using(self.inner)
CE_and_then(self, using, id) ==
  IF CE_is_err(self)
  THEN CE_Err(<<self.inner>>, id)
  ELSE Apply(using, <<self.inner>>, id)

\* if self.is_err(): return using(self.inner)
\* return Res.Ok(self.inner, F)
CE_or_else(self, using, id) ==
  IF CE_is_err(self)
  THEN Apply(using, <<self.inner>>, id)
  ELSE CE_Ok(<<self.inner, TypeArg("F")>>, id)

\* Mutant: and_ returning its argument whatever the tag.
CE_and_returns_other(self, other, id) == Ret(other, <<>>, 0)

\* if self.is_err(): return Res.Err(self.inner, U)
\* return res
CE_and_(self, other, id) ==
  IF CE_is_err(self)
  THEN CE_Err(<<self.inner, TypeArg("U")>>, id)
  ELSE Ret(other, <<>>, 0)

\* if self.is_err(): return res
\* return Res.Ok(self.inner, F)
CE_or_(self, other, id) ==
  IF CE_is_err(self)
  THEN Ret(other, <<>>, 0)
  ELSE CE_Ok(<<self.inner, TypeArg("F")>>, id)

\* ---------------------------------------------------- dict conversion
ResDict(ok, err, isok) == [ty |-> "dict", ok |-> ok, err |-> err, is_ok |-> isok]

\* Mutant: to_dict filling the slot of the other tag.
to_dict_wrong_slot(self) ==
  IF ~Truthy(self)
  THEN ResDict(self.inner, None, FALSE)
  ELSE ResDict(None, self.inner, TRUE)

to_dict(self) ==
  IF ~Truthy(self)
  THEN ResDict(None, self.inner, FALSE)
  ELSE ResDict(self.inner, None, TRUE)

from_dict(res_dict, id) ==
  IF res_dict.is_ok = FALSE
  THEN IF res_dict.err = None
       THEN Raise(NewExc("Nil", NilDefaultMsg, id), <<>>, 1)
       ELSE Err(res_dict.err, id)
  ELSE IF res_dict.ok = None
       THEN Raise(NewExc("Nil", NilDefaultMsg, id), <<>>, 1)
       ELSE Ok(res_dict.ok, id)

\* ------------------------------------------------------------ decorators
Catches(err_type, e) == \E t \in err_type : IsInstance(e, t)

\* An exception raised inside the try part is turned into out's handler.
AsReturned(out) == [out EXCEPT !.kind = "ret", !.val = None]

\* Mutant: safe catching every exception, listed or not.
safe_catches_all(err_type, using, id) ==
  LET called == Apply(using, <<>>, id)
      tried == IF called.kind = "ret"
               THEN Chain(called, Ok(called.val, id + called.ids))
               ELSE called
  IN IF tried.kind = "raise"
     THEN Chain(AsReturned(tried), Err(tried.val, id + tried.ids))
     ELSE tried

\* safe(*err_type)(using)(): try: return Res.Ok(using())
\*                           except err_type as e: return Res.Err(e)
safe(err_type, using, id) ==
  LET called == Apply(using, <<>>, id)
      tried == IF called.kind = "ret"
               THEN Chain(called, Ok(called.val, id + called.ids))
               ELSE called
  IN IF tried.kind = "raise" /\ Catches(err_type, tried.val)
     THEN Chain(AsReturned(tried), Err(tried.val, id + tried.ids))
     ELSE tried

\* null_safe(using)(): return Res.Some(using())
null_safe(using, id) ==
  LET called == Apply(using, <<>>, id) IN
  IF called.kind = "ret"
  THEN Chain(called, Some(called.val, id + called.ids))
  ELSE called

\* Mutant: null_and_error_safe keeping the exception it caught, as safe does.
null_and_error_safe_keeps_error(err_types, using, id) ==
  LET tried == null_safe(using, id) IN
  IF tried.kind = "raise" /\ Catches(err_types, tried.val)
  THEN Chain(AsReturned(tried), Err(tried.val, id + tried.ids))
  ELSE tried

\* null_and_error_safe(*err_types)(using)(): try: return Res.Some(using())
\*                                      except err_types: return Res(Nil(), False)
null_and_error_safe(err_types, using, id) ==
  LET tried == null_safe(using, id) IN
  IF tried.kind = "raise" /\ Catches(err_types, tried.val)
  THEN Chain(AsReturned(tried),
             Ret(Res(NewExc("Nil", NilDefaultMsg, id + tried.ids), FALSE), <<>>, 1))
  ELSE tried

\* Mutant: combine_errors never inheriting the message.
combine_errors_default_message(to, inherit_message, using, id) ==
  LET called == Apply(using, <<>>, id)
      handler == Fn(1, "new_default", None, to)
  IN IF called.kind = "raise" THEN called
     ELSE IF ~IsRes(called.val)
          THEN Raise(NewExc("AttributeError", "object has no attribute 'map_alt'",
                            id + called.ids), called.calls, called.ids + 1)
          ELSE LET m == map_alt(called.val, handler, id + called.ids)
               IN [m EXCEPT !.calls = called.calls, !.ids = called.ids + @]

\* combine_errors(to, inherit_message)(using)():
\*   return using().map_alt(lambda e: to(str(e)) if inherit_message else to())
\* The calls recorded are those of using only.
combine_errors(to, inherit_message, using, id) ==
  LET called == Apply(using, <<>>, id)
      handler == IF inherit_message
                 THEN Fn(1, "new_exc", None, to)
                 ELSE Fn(1, "new_default", None, to)
  IN IF called.kind = "raise" THEN called
     ELSE IF ~IsRes(called.val)
          THEN Raise(NewExc("AttributeError", "object has no attribute 'map_alt'",
                            id + called.ids), called.calls, called.ids + 1)
          ELSE LET m == map_alt(called.val, handler, id + called.ids)
               IN [m EXCEPT !.calls = called.calls, !.ids = called.ids + @]

\* ------------------------------------------------------------ the inputs
SeqsUpTo(S, n) == UNION {[1..k -> S] : k \in 0..n}
Ints == {PyInt(n) : n \in 0..MaxInt}
IsIncreasing(items) ==
  \A i \in 1..Len(items), j \in 1..Len(items) : i < j => items[i].n < items[j].n

Scalars == Ints \cup {None, PyStr("hello")}
Collections ==
  {Coll(ty, items) : ty \in {"list", "tuple", "listad"}, items \in SeqsUpTo(Ints, MaxLen)}
    \cup {Coll("set", items) : items \in {q \in SeqsUpTo(Ints, MaxLen) : IsIncreasing(q)}}

\* The exception objects the caller built beforehand, one identity each.
InputExcs == {NewExc("Exception", "foo", 0), NewExc("ValueError", "oops", 1)}
FirstFreshId == Cardinality(InputExcs)

Values == Scalars \cup Collections \cup InputExcs

\* What the caller's functions return or close over.
ConstPool ==
  {PyInt(0), None, Coll("list", <<>>), NewExc("Exception", "foo", 0),
   Res(PyInt(1), TRUE), Res(NewExc("ValueError", "oops", 1), FALSE)}

ErrClasses == {"ValueError", "TypeError"}

Funcs ==
  {Fn(a, "const", c, "") : a \in {0, 1}, c \in ConstPool}
    \cup {Fn(2, "const", PyInt(0), "")}
    \cup {Fn(1, b, None, "") : b \in {"ident", "add", "some_add", "some_of", "err_new"}}
    \cup {Fn(a, "new_exc", None, "ValueError") : a \in {0, 1}}
    \cup {Fn(a, "raise", None, cls) : a \in {0, 1}, cls \in ErrClasses}

\* The functions a decorator wraps, called with no argument.
Thunks == {f \in Funcs : f.arity = 0}

ErrTypeLists == {{"ValueError"}, {"TypeError"}, {"Exception"}, {"ValueError", "KeyError"}}

Dicts ==
  {ResDict(ok, err, isok) :
     ok \in {None, PyInt(0), NewExc("Exception", "foo", 0)},
     err \in {None, PyInt(0), NewExc("Exception", "foo", 0)},
     isok \in BOOLEAN}

\* The predicates handed to ok_and and err_and.
Preds ==
  {Fn(1, "eq_c", PyInt(0), ""), Fn(1, "isinstance", None, "ValueError"),
   Fn(1, "raise", None, "ValueError"), Fn(0, "const", PyBool(TRUE), "")}

\* The messages handed to expect and expect_err.
Messages == {"Oops", "Hello there"}

\* The operand on the right of an ordering comparison.
CompareOps == {"<", "<=", ">", ">="}
CompareOthers == {Res(PyInt(1), TRUE), Res(NewExc("Exception", "foo", 0), FALSE)}

\* The operand on the right of ==; the last one is built with the dataclass
\* constructor Res(inner, _is_ok) itself, which validates nothing.
EqOthers ==
  {Res(PyInt(1), TRUE), Res(Coll("list", <<PyInt(0)>>), TRUE), Res(None, TRUE),
   Res(NewExc("Exception", "foo", 0), FALSE), Res(NewExc("Exception", "foo", 0), TRUE)}

\* The operand on the left of in.
Items ==
  {PyInt(0), PyInt(1), None, PyStr("hello"), PyStr("he"), Coll("list", <<PyInt(0)>>),
   NewExc("Exception", "foo", 0)}

\* The attribute assigned to and the value assigned.
AttrNames == {"inner", "_is_ok"}

\* The inputs of the choice_experiment draft.
CEValues == Scalars \cup InputExcs
CEPool == {CERes(PyInt(1), FALSE), CERes(NewExc("ValueError", "oops", 1), TRUE)}
CEFuncs ==
  {Fn(1, "const", c, "") : c \in CEPool}
    \cup {Fn(1, "ce_some_of", None, ""), Fn(1, "ce_err_new", None, ""),
          Fn(1, "raise", None, "ValueError"), Fn(0, "const", CERes(PyInt(1), FALSE), "")}
CEDefaults == {PyInt(0), None}
CEThunks ==
  {Fn(0, "const", PyInt(0), ""), Fn(0, "raise", None, "ValueError"),
   Fn(1, "const", PyInt(0), "")}

\* ------------------------------------------------------------- the caller
\* The caller first obtains a Res from a constructor or a decorated function,
\* then calls methods on the Res it holds. One call of the library per step:
\* its outcome is recorded in last; a Res it returns becomes the Res held.
CanCall == steps < MaxSteps
Idle == res = None
Holding == IsRes(res)
HoldingCE == IsCERes(res)

Record(op, arg, fn, cls, types, out) ==
  /\ last' = [op |-> op, recv |-> res, arg |-> arg, fn |-> fn, cls |-> cls,
              types |-> types, out |-> out]
  /\ res' = IF out.kind = "ret" /\ (IsRes(out.val) \/ IsCERes(out.val)) THEN out.val ELSE res
  /\ nextId' = nextId + out.ids
  /\ steps' = steps + 1

Init ==
  /\ res = None
  /\ last = [op |-> "init", recv |-> None, arg |-> None, fn |-> NoFn, cls |-> "",
             types |-> {}, out |-> Ret(None, <<>>, 0)]
  /\ nextId = FirstFreshId
  /\ steps = 0

CallOk == CanCall /\ Idle /\ \E v \in Values : Record("Ok", v, NoFn, "", {}, Ok(v, nextId))
CallErr == CanCall /\ Idle /\ \E v \in Values : Record("Err", v, NoFn, "", {}, Err(v, nextId))
CallSome == CanCall /\ Idle /\ \E v \in Values : Record("Some", v, NoFn, "", {}, Some(v, nextId))
CallNil ==
  CanCall /\ Idle /\ \E hasMsg \in BOOLEAN :
    Record("Nil", IF hasMsg THEN PyStr("Nothing was found") ELSE None, NoFn, "", {},
           Nil(hasMsg, "Nothing was found", nextId))
CallFromDict == CanCall /\ Idle /\ \E d \in Dicts : Record("from_dict", d, NoFn, "", {}, from_dict(d, nextId))

CallUnwrap == CanCall /\ Holding /\ Record("unwrap", None, NoFn, "", {}, unwrap(res, nextId))
CallUnwrapAlt == CanCall /\ Holding /\ Record("unwrap_alt", None, NoFn, "", {}, unwrap_alt(res, nextId))

CallMap == CanCall /\ Holding /\ \E f \in Funcs : Record("map", None, f, "", {}, map(res, f, nextId))
CallMapAlt ==
  CanCall /\ Holding /\ \E f \in Funcs : Record("map_alt", None, f, "", {}, map_alt(res, f, nextId))
CallConvertErr ==
  CanCall /\ Holding /\ \E cls \in ErrClasses \cup {"Nil"} :
    Record("convert_err", None, NoFn, cls, {}, convert_err(res, cls, nextId))
CallDo == CanCall /\ Holding /\ \E f \in Funcs : Record("do", None, f, "", {}, do(res, f, nextId))
CallDoErr ==
  CanCall /\ Holding /\ \E f \in Funcs : Record("do_err", None, f, "", {}, do_err(res, f, nextId))

CallUnwrapErr == CanCall /\ Holding /\ Record("unwrap_err", None, NoFn, "", {}, unwrap_err(res, nextId))
CallExpect ==
  CanCall /\ Holding /\ \E m \in Messages :
    Record("expect", PyStr(m), NoFn, "", {}, expect(res, m, nextId))
CallExpectErr ==
  CanCall /\ Holding /\ \E m \in Messages :
    Record("expect_err", PyStr(m), NoFn, "", {}, expect_err(res, m, nextId))
CallUnpack == CanCall /\ Holding /\ Record("unpack", None, NoFn, "", {}, Ret(unpack(res), <<>>, 0))
CallIsOk == CanCall /\ Holding /\ Record("is_ok", None, NoFn, "", {}, Ret(PyBool(is_ok(res)), <<>>, 0))
CallIsErr == CanCall /\ Holding /\ Record("is_err", None, NoFn, "", {}, Ret(PyBool(is_err(res)), <<>>, 0))
CallBool == CanCall /\ Holding /\ Record("bool", None, NoFn, "", {}, Ret(PyBool(Truthy(res)), <<>>, 0))
CallOkAnd ==
  CanCall /\ Holding /\ \E p \in Preds : Record("ok_and", None, p, "", {}, ok_and(res, p, nextId))
CallErrAnd ==
  CanCall /\ Holding /\ \E p \in Preds : Record("err_and", None, p, "", {}, err_and(res, p, nextId))
CallCompare ==
  CanCall /\ Holding /\ \E op \in CompareOps, other \in CompareOthers :
    Record(op, other, NoFn, "", {}, Compare(op, res, other, nextId))

CallEq ==
  CanCall /\ Holding /\ \E other \in EqOthers :
    Record("==", other, NoFn, "", {}, Ret(PyBool(eq(res, other)), <<>>, 0))
CallContains ==
  CanCall /\ Holding /\ \E item \in Items :
    Record("in", item, NoFn, "", {}, contains(res, item, nextId))
\* list(r): the items the iteration yields, collected in order.
CallIter == CanCall /\ Holding /\ Record("iter", None, NoFn, "", {}, Ret(Coll("list", Iter(res)), <<>>, 0))
CallToDict == CanCall /\ Holding /\ Record("to_dict", None, NoFn, "", {}, Ret(to_dict(res), <<>>, 0))
\* Res.from_dict(r.to_dict())
CallFromToDict ==
  CanCall /\ Holding /\ Record("from_to_dict", to_dict(res), NoFn, "", {}, from_dict(to_dict(res), nextId))
\* r.name = value: the caller goes on holding r as the statement left it.
CallSetAttr ==
  CanCall /\ Holding /\ \E name \in AttrNames :
    /\ last' = [op |-> "setattr", recv |-> res, arg |-> PyInt(0), fn |-> NoFn, cls |-> name,
                types |-> {}, out |-> SetAttr(res, name, PyInt(0), nextId)]
    /\ res' = AfterSetAttr(res, name, PyInt(0))
    /\ nextId' = nextId + 1
    /\ steps' = steps + 1

CallCEOk ==
  CanCall /\ Idle /\ \E v \in CEValues :
    Record("CE_Ok", v, NoFn, "", {}, CE_Ok(<<v, TypeArg("Exception")>>, nextId))
CallCEErr ==
  CanCall /\ Idle /\ \E v \in CEValues :
    Record("CE_Err", v, NoFn, "", {}, CE_Err(<<v, TypeArg("int")>>, nextId))
CallCESome == CanCall /\ Idle /\ \E v \in CEValues : Record("CE_Some", v, NoFn, "", {}, CE_Some(v, nextId))
CallAndThen ==
  CanCall /\ HoldingCE /\ \E f \in CEFuncs : Record("and_then", None, f, "", {}, CE_and_then(res, f, nextId))
CallOrElse ==
  CanCall /\ HoldingCE /\ \E f \in CEFuncs : Record("or_else", None, f, "", {}, CE_or_else(res, f, nextId))
CallAnd ==
  CanCall /\ HoldingCE /\ \E other \in CEPool : Record("and_", other, NoFn, "", {}, CE_and_(res, other, nextId))
CallOr ==
  CanCall /\ HoldingCE /\ \E other \in CEPool : Record("or_", other, NoFn, "", {}, CE_or_(res, other, nextId))
CallUnwrapOr ==
  CanCall /\ HoldingCE /\ \E d \in CEDefaults :
    Record("unwrap_or", d, NoFn, "", {}, CE_unwrap_or(res, d))
CallUnwrapOrElse ==
  CanCall /\ HoldingCE /\ \E g \in CEThunks :
    Record("unwrap_or_else", None, g, "", {}, CE_unwrap_or_else(res, g, nextId))

CallSafe ==
  CanCall /\ Idle /\ \E g \in Thunks, types \in ErrTypeLists :
    Record("safe", None, g, "", types, safe(types, g, nextId))
CallNullSafe == CanCall /\ Idle /\ \E g \in Thunks : Record("null_safe", None, g, "", {}, null_safe(g, nextId))
CallNullAndErrorSafe ==
  CanCall /\ Idle /\ \E g \in Thunks, types \in ErrTypeLists :
    Record("null_and_error_safe", None, g, "", types, null_and_error_safe(types, g, nextId))
CallCombineErrors ==
  CanCall /\ Idle /\ \E g \in Thunks, to \in {"ValueError", "Nil"}, inherit \in BOOLEAN :
    Record("combine_errors", IF inherit THEN PyInt(1) ELSE PyInt(0), g, to, {},
           combine_errors(to, inherit, g, nextId))

Next ==
  \/ CallOk
  \/ CallErr
  \/ CallSome
  \/ CallNil
  \/ CallFromDict
  \/ CallUnwrap
  \/ CallUnwrapAlt
  \/ CallMap
  \/ CallMapAlt
  \/ CallConvertErr
  \/ CallDo
  \/ CallDoErr
  \/ CallSafe
  \/ CallNullSafe
  \/ CallNullAndErrorSafe
  \/ CallCombineErrors
  \/ CallUnwrapErr
  \/ CallExpect
  \/ CallExpectErr
  \/ CallUnpack
  \/ CallIsOk
  \/ CallIsErr
  \/ CallBool
  \/ CallOkAnd
  \/ CallErrAnd
  \/ CallCompare
  \/ CallEq
  \/ CallContains
  \/ CallIter
  \/ CallToDict
  \/ CallFromToDict
  \/ CallSetAttr
  \/ CallCEOk
  \/ CallCEErr
  \/ CallCESome
  \/ CallAndThen
  \/ CallOrElse
  \/ CallAnd
  \/ CallOr
  \/ CallUnwrapOr
  \/ CallUnwrapOrElse

Spec == Init /\ [][Next]_vars

TypeOK == steps \in 0..MaxSteps /\ nextId >= FirstFreshId

\* ============================================================ the claims
\* The id the last call drew its new exception objects from.
CallId == nextId - last.out.ids

Returned(v) == last.out.kind = "ret" /\ last.out.val = v
Raised(e) == last.out.kind = "raise" /\ last.out.val = e
RaisedClass(cls) == last.out.kind = "raise" /\ last.out.val.cls = cls

\* C1: unwrap() of Success(v) returns v; unwrap() of Failure(e) raises the
\* stored exception object e itself, never UnwrapError or another exception.
C1_UnwrapReturnsOrRaisesPayload ==
  last.op = "unwrap" =>
    /\ last.recv.is_ok => Returned(last.recv.inner)
    /\ ~last.recv.is_ok => Raised(last.recv.inner)

C1_Witness == last.op = "unwrap" /\ ~last.recv.is_ok /\ last.out.kind = "raise"

\* C2: Res.Ok(v) raises TypeError for every Exception instance v; for every
\* other v it returns a Success for which is_ok holds and unwrap() returns v.
C2_OkRejectsExceptions ==
  last.op = "Ok" =>
    IF IsException(last.arg)
    THEN RaisedClass("TypeError")
    ELSE /\ last.out.kind = "ret"
         /\ IsRes(last.out.val)
         /\ is_ok(last.out.val)
         /\ unwrap(last.out.val, nextId) = Ret(last.arg, <<>>, 0)

C2_Witness == last.op = "Ok" /\ IsException(last.arg) /\ last.out.kind = "raise"

\* C3: Res.Err(x) raises TypeError, producing no Result, for every x that is
\* not an Exception instance; for every Exception e it returns a Failure for
\* which is_err holds and unwrap_alt() returns e.
C3_ErrRejectsNonExceptions ==
  last.op = "Err" =>
    IF ~IsException(last.arg)
    THEN RaisedClass("TypeError") /\ res = last.recv
    ELSE /\ last.out.kind = "ret"
         /\ IsRes(last.out.val)
         /\ is_err(last.out.val)
         /\ unwrap_alt(last.out.val, nextId) = Ret(last.arg, <<>>, 0)

C3_Witness == last.op = "Err" /\ ~IsException(last.arg) /\ last.out.kind = "raise"

\* C4 as stated: Res.Some(None) is a Failure holding a Nil; Res.Some(v) is
\* Success(v) for every v other than None.
C4_Original ==
  last.op = "Some" =>
    IF last.arg = None
    THEN /\ last.out.kind = "ret"
         /\ ~last.out.val.is_ok
         /\ IsException(last.out.val.inner)
         /\ last.out.val.inner.cls = "Nil"
    ELSE Returned(Res(last.arg, TRUE))

\* C4 as amended: Res.Some(None) is a Failure holding a Nil; Res.Some(v) is
\* Success(v) for every v that is neither None nor an Exception instance; for
\* an Exception instance Res.Some raises TypeError.
C4_SomeChecksNone ==
  last.op = "Some" =>
    CASE last.arg = None ->
           /\ last.out.kind = "ret"
           /\ ~last.out.val.is_ok
           /\ IsException(last.out.val.inner)
           /\ last.out.val.inner.cls = "Nil"
      [] IsException(last.arg) -> RaisedClass("TypeError")
      [] OTHER -> Returned(Res(last.arg, TRUE))

C4_Witness == last.op = "Some" /\ last.arg = None /\ last.out.kind = "ret"

\* C5: in every Result obtained through the constructors, combinators and
\* decorators, a Failure holds an Exception instance and a Success holds a
\* value that is not an Exception instance.
WellFormed(r) == IF r.is_ok THEN ~IsException(r.inner) ELSE IsException(r.inner)

C5_PayloadMatchesTag ==
  /\ IsRes(res) => WellFormed(res)
  /\ (last.out.kind = "ret" /\ IsRes(last.out.val)) => WellFormed(last.out.val)

C5_Witness ==
  /\ last.op = "map_alt"
  /\ IsRes(last.recv)
  /\ ~last.recv.is_ok
  /\ last.fn.body = "new_exc"
  /\ IsRes(res)
  /\ ~res.is_ok
  /\ res.inner # last.recv.inner

\* What the caller's function returns when applied, as the claims read it, to
\* the whole payload of the receiver (to nothing when it takes no argument).
WholeArgs == IF last.fn.arity = 1 THEN <<last.recv.inner>> ELSE <<>>
OnWhole == Apply(last.fn, WholeArgs, CallId)

\* A value the Result built by op may hold: map wraps a plain value as a
\* Success and map_alt as a Failure; do and do_err drop the value.
Holdable(op, v) ==
  CASE op = "map" -> IsRes(v) \/ ~IsException(v)
    [] op = "map_alt" -> IsRes(v) \/ IsException(v)
    [] OTHER -> TRUE

\* Every run of the function's body during the last call returned normally,
\* with a value the Result to build may hold.
FnReturnedNormally ==
  \A i \in 1..Len(last.out.calls) :
    LET o == Apply(last.fn, last.out.calls[i], 0)
    IN o.kind = "ret" /\ Holdable(last.op, o.val)

Combinators == {"map", "map_alt", "do", "do_err", "convert_err"}

\* C6: no combinator raises an exception of its own, for any Result and any
\* function of arity 0 or 1 that itself returns normally. Stated for the
\* functions whose return value the Result to build may hold (for the others
\* the constructors' TypeError escapes from map and map_alt as well).
C6_Original ==
  (last.op \in Combinators /\ last.fn.arity \in {0, 1} /\ FnReturnedNormally)
    => last.out.kind = "ret"

\* C7: for every Success(t), whatever t is (a scalar or a list, tuple or set,
\* empty or not), and every function f returning a value u that is not a
\* Result (and that Success may hold: not an Exception), map(f) returns
\* Success(f(t)), or Success(f()) for a 0-arity f, and applies f exactly once,
\* to the whole payload t.
C7_Original ==
  (/\ last.op = "map"
   /\ last.recv.is_ok
   /\ last.fn.arity \in {0, 1}
   /\ OnWhole.kind = "ret"
   /\ ~IsRes(OnWhole.val)
   /\ ~IsException(OnWhole.val))
    => /\ Returned(Res(OnWhole.val, TRUE))
       /\ last.out.calls = <<WholeArgs>>

\* C8: for every Success(v) and every function f returning a Result,
\* ok(v).map(f) is exactly the Result f(v), Success or Failure.
C8_Original ==
  (/\ last.op = "map"
   /\ last.recv.is_ok
   /\ last.fn.arity = 1
   /\ OnWhole.kind = "ret"
   /\ IsRes(OnWhole.val))
    => Returned(OnWhole.val)

\* C9: for every Failure(e) and every function f, map(f) returns a Failure
\* holding the same e, and f is never invoked.
C9_MapKeepsFailure ==
  (last.op = "map" /\ ~last.recv.is_ok)
    => /\ Returned(Res(last.recv.inner, FALSE))
       /\ last.out.calls = <<>>

C9_Witness ==
  /\ last.op = "map"
  /\ ~last.recv.is_ok
  /\ last.fn.body = "raise"
  /\ last.fn.arity = 1
  /\ last.out.kind = "ret"

\* C10 as stated: on Failure(e), map_alt(f) is Failure(x) when f(e) (or f())
\* returns a value x that is not a Result, and is that Result when it returns
\* one; on Success(v), f is never invoked and the outcome is Success(v).
C10_Original ==
  last.op = "map_alt" =>
    IF last.recv.is_ok
    THEN Returned(Res(last.recv.inner, TRUE)) /\ last.out.calls = <<>>
    ELSE (last.fn.arity \in {0, 1} /\ OnWhole.kind = "ret")
           => IF IsRes(OnWhole.val)
              THEN Returned(OnWhole.val)
              ELSE Returned(Res(OnWhole.val, FALSE))

\* C10 as amended: on Failure(e), map_alt(f) is Failure(x) when f(e) (or f())
\* returns an Exception instance x, is that Result when it returns a Result,
\* and raises TypeError when it returns any other value; on Success(v), f is
\* never invoked and the outcome is Success(v).
C10_MapAltMirrorsMap ==
  last.op = "map_alt" =>
    IF last.recv.is_ok
    THEN Returned(Res(last.recv.inner, TRUE)) /\ last.out.calls = <<>>
    ELSE (last.fn.arity \in {0, 1} /\ OnWhole.kind = "ret")
           => /\ last.out.calls = <<WholeArgs>>
              /\ CASE IsRes(OnWhole.val) -> Returned(OnWhole.val)
                   [] IsException(OnWhole.val) -> Returned(Res(OnWhole.val, FALSE))
                   [] OTHER -> RaisedClass("TypeError")

C10_Witness ==
  /\ last.op = "map_alt"
  /\ ~last.recv.is_ok
  /\ last.fn.arity = 1
  /\ last.fn.body = "new_exc"
  /\ last.out.kind = "ret"
  /\ ~last.out.val.is_ok
  /\ last.out.val.inner.msg = StrOf(last.recv.inner)

\* C11: and_then and or_else short-circuit. err(e).and_then(f) never invokes
\* f and returns Failure(e); ok(v).or_else(f) never invokes f and returns
\* Success(v); on the matching tag each returns what f returns when applied
\* to the payload.
C11_Original ==
  /\ last.op = "and_then" =>
       IF CE_is_err(last.recv)
       THEN Returned(last.recv) /\ last.out.calls = <<>>
       ELSE last.fn.arity = 1 => last.out = Body(last.fn, <<last.recv.inner>>, CallId)
  /\ last.op = "or_else" =>
       IF CE_is_ok(last.recv)
       THEN Returned(last.recv) /\ last.out.calls = <<>>
       ELSE last.fn.arity = 1 => last.out = Body(last.fn, <<last.recv.inner>>, CallId)

\* C12: r.and_(other) returns other when r is a Success and a Result equal to
\* r when r is a Failure; r.or_(other) returns other when r is a Failure and a
\* Result equal to r when r is a Success.
C12_AndOrSelect ==
  /\ last.op = "and_" =>
       IF CE_is_ok(last.recv) THEN Returned(last.arg) ELSE Returned(last.recv)
  /\ last.op = "or_" =>
       IF CE_is_err(last.recv) THEN Returned(last.arg) ELSE Returned(last.recv)

C12_Witness ==
  /\ last.op = "and_"
  /\ CE_is_err(last.recv)
  /\ last.arg # last.recv
  /\ Returned(last.recv)

\* C13: do(f) on a Success and do_err(f) on a Failure invoke f once, on the
\* payload (on nothing for a 0-arity f), and return a Result equal to the
\* receiver whatever f returns; do on a Failure and do_err on a Success do not
\* invoke f and return the receiver unchanged.
C13_Original ==
  /\ last.op = "do" =>
       IF last.recv.is_ok
       THEN (last.fn.arity \in {0, 1} /\ OnWhole.kind = "ret")
              => Returned(last.recv) /\ last.out.calls = <<WholeArgs>>
       ELSE Returned(last.recv) /\ last.out.calls = <<>>
  /\ last.op = "do_err" =>
       IF ~last.recv.is_ok
       THEN (last.fn.arity \in {0, 1} /\ OnWhole.kind = "ret")
              => Returned(last.recv) /\ last.out.calls = <<WholeArgs>>
       ELSE Returned(last.recv) /\ last.out.calls = <<>>

\* C14: unwrap_err() / unwrap_alt() returns e on Failure(e); on every Success
\* it raises UnwrapError carrying the message 'Unwrapped Err while in Ok
\* state', and neither returns nor raises the Success payload.
C14_UnwrapAltRaisesUnwrapError ==
  last.op \in {"unwrap_alt", "unwrap_err"} =>
    IF ~last.recv.is_ok
    THEN Returned(last.recv.inner)
    ELSE /\ RaisedClass("UnwrapError")
         /\ last.out.val.msg = "Unwrapped Err while in Ok state"
         /\ last.out.val # last.recv.inner

C14_Witness ==
  /\ last.op = "unwrap_err"
  /\ last.recv.is_ok
  /\ RaisedClass("UnwrapError")

\* C15: expect(msg) returns the payload on a Success and raises ExpectError
\* carrying the caller's msg on a Failure; expect_err(msg) returns the payload
\* on a Failure and raises ExpectError carrying msg on a Success.
C15_ExpectCarriesMessage ==
  /\ last.op = "expect" =>
       IF last.recv.is_ok
       THEN Returned(last.recv.inner)
       ELSE RaisedClass("ExpectError") /\ last.out.val.msg = last.arg.s
  /\ last.op = "expect_err" =>
       IF ~last.recv.is_ok
       THEN Returned(last.recv.inner)
       ELSE RaisedClass("ExpectError") /\ last.out.val.msg = last.arg.s

C15_Witness ==
  /\ last.op = "expect"
  /\ ~last.recv.is_ok
  /\ RaisedClass("ExpectError")
  /\ last.out.val.msg = "Oops"

\* C16: unwrap_or(d) returns v on Success(v) and d on every Failure;
\* unwrap_or_else(thunk) returns v on Success(v) without invoking thunk and
\* what thunk() returns on a Failure; some(None).unwrap_or(d) returns d.
C16_UnwrapOrDefaults ==
  /\ last.op = "unwrap_or" =>
       /\ IF CE_is_ok(last.recv) THEN Returned(last.recv.inner) ELSE Returned(last.arg)
       /\ \A k \in FirstFreshId..nextId :
            last.recv = CE_Some(None, k).val => Returned(last.arg)
  /\ last.op = "unwrap_or_else" =>
       IF CE_is_ok(last.recv)
       THEN Returned(last.recv.inner) /\ last.out.calls = <<>>
       ELSE last.fn.arity = 0 => last.out = Body(last.fn, <<>>, CallId)

C16_Witness ==
  /\ last.op = "unwrap_or"
  /\ \E k \in FirstFreshId..nextId : last.recv = CE_Some(None, k).val
  /\ last.arg = PyInt(0)
  /\ Returned(PyInt(0))

\* The slots of the pair unpack returned that hold something other than None.
Populated == {i \in 1..2 : last.out.val.items[i] # None}

UnpackedByTag ==
  /\ last.out.kind = "ret"
  /\ last.out.val.ty = "tuple"
  /\ IF last.recv.is_ok
     THEN last.out.val.items = <<last.recv.inner, None>>
     ELSE last.out.val.items = <<None, last.recv.inner>>

\* C17 as stated: unpack() returns (v, None) for Success(v) and (None, e) for
\* Failure(e), and exactly one slot of the pair is populated (not None).
C17_Original ==
  last.op = "unpack" => UnpackedByTag /\ Cardinality(Populated) = 1

\* C17 as amended: unpack() returns (v, None) for Success(v) and (None, e) for
\* Failure(e); exactly one slot of the pair is populated unless the receiver
\* is Success(None), for which both slots are None.
C17_UnpackByTag ==
  last.op = "unpack" =>
    /\ UnpackedByTag
    /\ IF last.recv = Res(None, TRUE)
       THEN Populated = {}
       ELSE Cardinality(Populated) = 1

C17_Witness ==
  /\ last.op = "unpack"
  /\ last.recv = Res(None, TRUE)
  /\ Returned(Coll("tuple", <<None, None>>))

\* C18: for every Result r exactly one of is_ok(r) and is_err(r) is true, and
\* bool(r) is true exactly when r is a Success.
C18_ExactlyOneOfIsOkIsErr ==
  last.op \in {"is_ok", "is_err", "bool"} =>
    /\ is_ok(last.recv) # is_err(last.recv)
    /\ last.op = "is_ok" => Returned(PyBool(last.recv.is_ok))
    /\ last.op = "is_err" => Returned(PyBool(~last.recv.is_ok))
    /\ last.op = "bool" => Returned(PyBool(last.recv.is_ok))

C18_Witness ==
  /\ last.op = "is_err"
  /\ ~last.recv.is_ok
  /\ Returned(PyBool(TRUE))

\* C19: ok_and(p) returns False on every Failure without invoking p and
\* what p(v) returns on Success(v); err_and(p) returns False on every Success
\* without invoking p and what p(e) returns on Failure(e).
C19_PredicateOnMatchingTag ==
  /\ last.op = "ok_and" =>
       IF ~last.recv.is_ok
       THEN Returned(PyBool(FALSE)) /\ last.out.calls = <<>>
       ELSE last.fn.arity = 1 => last.out = Body(last.fn, <<last.recv.inner>>, CallId)
  /\ last.op = "err_and" =>
       IF last.recv.is_ok
       THEN Returned(PyBool(FALSE)) /\ last.out.calls = <<>>
       ELSE last.fn.arity = 1 => last.out = Body(last.fn, <<last.recv.inner>>, CallId)

C19_Witness ==
  /\ last.op = "ok_and"
  /\ ~last.recv.is_ok
  /\ last.fn.body = "raise"
  /\ last.fn.arity = 1
  /\ Returned(PyBool(FALSE))

\* C20: for every Success s and Failure f, each of s < f, s <= f, s > f and
\* s >= f evaluates to False, and none of them raises.
C20_Original ==
  (last.op \in CompareOps /\ last.recv.is_ok /\ ~last.arg.is_ok)
    => Returned(PyBool(FALSE))

\* C21: two Results compare equal if and only if they have the same tag and
\* their payloads are equal; a Success never equals a Failure.
C21_EqualIffSameTagAndPayload ==
  last.op = "==" =>
    /\ Returned(PyBool(TRUE)) <=>
         (last.recv.is_ok = last.arg.is_ok /\ PyEq(last.recv.inner, last.arg.inner))
    /\ last.recv.is_ok # last.arg.is_ok => Returned(PyBool(FALSE))
    /\ last.out.kind = "ret"

C21_Witness ==
  /\ last.op = "=="
  /\ last.recv.inner.ty = "listad"
  /\ last.arg.inner.ty = "list"
  /\ Returned(PyBool(TRUE))

\* x in p for a list, tuple, set or Listad p, when Python can decide it (a
\* set cannot be asked about an unhashable x).
Decidable == ~(last.recv.inner.ty = "set" /\ Unhashable(last.arg))
IsMember ==
  \E i \in 1..Len(last.recv.inner.items) : PyEq(last.arg, last.recv.inner.items[i])

\* C22 as stated: x in r is False for every Failure r and every x; for
\* Success(p) it is the membership of x in p when p is a list, tuple or set,
\* and the equality x == p when p is a scalar (an int, None or a str).
C22_Original ==
  last.op = "in" =>
    CASE ~last.recv.is_ok -> Returned(PyBool(FALSE))
      [] IsBuiltinColl(last.recv.inner) -> Decidable => Returned(PyBool(IsMember))
      [] last.recv.inner.ty \in {"int", "none", "str"} ->
           Returned(PyBool(PyEq(last.arg, last.recv.inner)))
      [] OTHER -> TRUE

\* C22 as amended: x in r is False for every Failure r and every x; for
\* Success(p) it is the membership of x in p when p is a list, tuple, set or
\* Listad; when p is a str it is the substring test for a str x and raises
\* TypeError for any other x; when p is an int or None it is x == p.
C22_ContainsDelegatesToPayload ==
  last.op = "in" =>
    CASE ~last.recv.is_ok -> Returned(PyBool(FALSE))
      [] IsBuiltinColl(last.recv.inner) \/ IsColladic(last.recv.inner) ->
           Decidable => Returned(PyBool(IsMember))
      [] last.recv.inner.ty = "str" ->
           IF last.arg.ty = "str"
           THEN Returned(PyBool(Substring(last.arg.s, last.recv.inner.s)))
           ELSE RaisedClass("TypeError")
      [] last.recv.inner.ty \in {"int", "none"} ->
           Returned(PyBool(PyEq(last.arg, last.recv.inner)))
      [] OTHER -> TRUE

C22_Witness ==
  /\ last.op = "in"
  /\ last.recv = Res(PyStr("hello"), TRUE)
  /\ last.arg = PyStr("he")
  /\ Returned(PyBool(TRUE))

\* C23: iterating Success(p) yields exactly the elements of p when p is a
\* list, tuple or set, yields p itself exactly once when p is a scalar, and
\* iterating any Failure yields no item at all.
C23_IterationByPayload ==
  last.op = "iter" =>
    /\ last.out.kind = "ret"
    /\ CASE ~last.recv.is_ok -> last.out.val.items = <<>>
         [] IsBuiltinColl(last.recv.inner) -> last.out.val.items = last.recv.inner.items
         [] last.recv.inner.ty \in {"int", "none", "str"} ->
              last.out.val.items = <<last.recv.inner>>
         [] OTHER -> TRUE

C23_Witness ==
  /\ last.op = "iter"
  /\ last.recv.is_ok
  /\ last.recv.inner.ty = "tuple"
  /\ Len(last.out.val.items) = 2

\* What the wrapped function does when called with no argument.
Called == Apply(last.fn, <<>>, CallId)

\* The last call returned a Failure holding a new exception of class cls.
ReturnedNewFailure(cls) ==
  /\ last.out.kind = "ret"
  /\ IsRes(last.out.val)
  /\ ~last.out.val.is_ok
  /\ IsException(last.out.val.inner)
  /\ last.out.val.inner.cls = cls
  /\ last.out.val.inner.id >= CallId

\* How the TypeError that Res.Ok raises inside the try part comes out.
OkTypeErrorOutcome ==
  IF Catches(last.types, NewExc("TypeError", "", 0))
  THEN ReturnedNewFailure(IF last.op = "safe" THEN "TypeError" ELSE "Nil")
  ELSE RaisedClass("TypeError")

\* C24 as stated: for safe(E1..En)(g), a normal return value v gives
\* Success(v); an exception raised by g that is an instance of a listed type
\* is returned as a Failure holding it; any other exception propagates.
C24_Original ==
  last.op = "safe" =>
    IF Called.kind = "ret"
    THEN Returned(Res(Called.val, TRUE))
    ELSE IF Catches(last.types, Called.val)
         THEN Returned(Res(Called.val, FALSE))
         ELSE Raised(Called.val)

\* C24 as amended: a normal return value v that is not an Exception instance
\* gives Success(v); an exception raised by g that is an instance of a listed
\* type is returned as a Failure holding it; any other exception propagates;
\* when g returns an Exception instance, Res.Ok raises TypeError, which is
\* returned as a Failure when TypeError is listed and propagates otherwise.
C24_SafeCapturesListed ==
  last.op = "safe" =>
    IF Called.kind = "ret"
    THEN IF IsException(Called.val)
         THEN OkTypeErrorOutcome
         ELSE Returned(Res(Called.val, TRUE))
    ELSE IF Catches(last.types, Called.val)
         THEN Returned(Res(Called.val, FALSE))
         ELSE Raised(Called.val)

C24_Witness ==
  /\ last.op = "safe"
  /\ Called.kind = "raise"
  /\ ~Catches(last.types, Called.val)
  /\ Raised(Called.val)

C26_CombineErrorsRemaps ==
  (last.op = "combine_errors" /\ Called.kind = "ret" /\ IsRes(Called.val)) =>
    IF Called.val.is_ok
    THEN Returned(Called.val)
    ELSE /\ ReturnedNewFailure(last.cls)
         /\ last.out.val.inner.msg =
              IF last.arg = PyInt(1) THEN StrOf(Called.val.inner) ELSE DefaultMsg(last.cls)

C26_Witness ==
  /\ last.op = "combine_errors"
  /\ last.arg = PyInt(1)
  /\ last.cls = "Nil"
  /\ Called.kind = "ret"
  /\ IsRes(Called.val)
  /\ ~Called.val.is_ok
  /\ ReturnedNewFailure("Nil")
  /\ last.out.val.inner.msg = "oops"

ToDictByTag ==
  last.op = "to_dict" =>
    Returned(IF last.recv.is_ok
             THEN ResDict(last.recv.inner, None, TRUE)
             ELSE ResDict(None, last.recv.inner, FALSE))

\* C28 as stated: to_dict and from_dict round-trip. For every Result r,
\* r.to_dict() has is_ok equal to r's tag, the payload in the matching slot
\* and None in the other, and Res.from_dict(r.to_dict()) returns a Result
\* with the tag and payload of r, without raising.
C28_Original ==
  /\ ToDictByTag
  /\ last.op = "from_to_dict" => Returned(last.recv)

\* C28 as amended: r.to_dict() is as stated for every Result r, and
\* Res.from_dict(r.to_dict()) returns a Result with the tag and payload of r
\* for every r other than Success(None); for Success(None) the dict has None
\* in both slots and from_dict raises Nil.
C28_RoundTripExceptNone ==
  /\ ToDictByTag
  /\ last.op = "from_to_dict" =>
       IF last.recv = Res(None, TRUE)
       THEN RaisedClass("Nil") /\ last.arg = ResDict(None, None, TRUE)
       ELSE Returned(last.recv)

C28_Witness ==
  /\ last.op = "from_to_dict"
  /\ ~last.recv.is_ok
  /\ last.arg.err = last.recv.inner
  /\ Returned(last.recv)

\* C29: iterating a Success whose payload is one of the library's collection
\* wrappers (a Listad) yields the wrapper itself exactly once and not its
\* elements.
C29_WrapperYieldedWhole ==
  (last.op = "iter" /\ last.recv.is_ok /\ IsColladic(last.recv.inner))
    => Returned(Coll("list", <<last.recv.inner>>))

C29_Witness ==
  /\ last.op = "iter"
  /\ last.recv.is_ok
  /\ IsColladic(last.recv.inner)
  /\ Len(last.recv.inner.items) = 2
  /\ Len(last.out.val.items) = 1

\* C30: do_err(f) on Failure(e) always returns Failure(e), even when f
\* raises: no exception raised while running f propagates to the caller.
C30_DoErrSwallowsExceptions ==
  (last.op = "do_err" /\ ~last.recv.is_ok) => Returned(Res(last.recv.inner, FALSE))

C30_Witness ==
  /\ last.op = "do_err"
  /\ ~last.recv.is_ok
  /\ last.fn.arity = 1
  /\ last.fn.body = "raise"
  /\ last.fn.cls = "ValueError"
  /\ last.out.calls = <<<<last.recv.inner>>>>
  /\ Returned(last.recv)

====
